---- MODULE Spec2Model ----
(***************************************************************************)
(* rgmsh: the handle layer (Gmsh context, GeoModel / OccModel / Geo model  *)
(* handles, geometry tags) over the gmsh_sys foreign interface.            *)
(*                                                                         *)
(* The foreign library is the environment: every gmsh_sys call returns an  *)
(* integer status (and, for constructors, a tag) chosen by the library.    *)
(* With one client thread each action is one whole handler, and the       *)
(* foreign calls it issued are kept in `log`, each with the library's      *)
(* current model and initialization flag at the moment of the call.  With  *)
(* two client threads (SpecThreads) a step is one foreign call.            *)
(***************************************************************************)
EXTENDS Integers, Sequences, FiniteSets, TLC

VARIABLES
    backend,    \* the gmsh library: [init, models, cur, opts]
    sessions,   \* the live Gmsh context values
    handles,    \* the live model handles: [id, name, kernel, sess]
    tags,       \* the geometry tags the client holds: [kind, raw]
    op,         \* the last wrapper operation: [name, h, sess, ins, entity]
    log,        \* the gmsh_sys calls the last operation issued, in order
    result,     \* what the last operation returned
    numbers,    \* the points of each model: [pts, live, first] (SpecPoints)
    threads     \* the position of each client thread (SpecThreads)

vars == <<backend, sessions, handles, tags, op, log, result, numbers, threads>>

-----------------------------------------------------------------------------
(* Bounds of the model *)

MaxSessions == 2
MaxModels == 2
MaxTags == 2
MaxLoop == 3

ModelNames == {"a", "b"}
(* The names a client may ask a model to be made under *)
NewModelNames == ModelNames \cup {"a\\0b"}
Kernels == {"GeoModel", "OccModel", "Geo"}
Dims == {1, 2}

(* i32::MIN and i32::MAX, the range of a raw tag *)
MaxI32 == 2147483647
MinI32 == (-MaxI32) - 1

(* Target mesh sizes: 0 (the value that stands for "none") and one other. *)
Lcs == {0, 1}

(* Status codes the library hands back: the listed ones and one other. *)
Statuses == {-1, 0, 1, 2, 3, 4, 5}
(* Tags the library hands back from a constructor. *)
TagVals == {1, 2}

(* The library's options: the numeric and the string ones the client uses, *)
(* with the values it sets, and the names handed to the accessors.         *)
NumberOptions == {"General.Terminal", "General.Axes"}
StringOptions == {"Solver.Name0"}
NumberVals == {0, 1, 5}
StringVals == {"GetDP", "TEST_NAME_1"}
(* Rust strings with a NUL inside (written \0 here) *)
NulStrs == {"Bad\\0Option", "TEST\\0NAME", "a\\0b"}
OptionNames == NumberOptions \cup StringOptions \cup {"Bad.Option", "Bad\\0Option"}
DefaultOptions ==
    [num |-> [n \in NumberOptions |-> 0], str |-> [n \in StringOptions |-> "GetDP"]]

-----------------------------------------------------------------------------
(* Values *)

NoModel == 0
NoHandle == [id |-> 0, name |-> "", kernel |-> "none", sess |-> 0]
Unit == [kind |-> "Unit", raw |-> 0]
NoEntity == [variant |-> "none", raw |-> 0]

Tag(kind, raw) == [kind |-> kind, raw |-> raw]
PointTag(i) == Tag("Point", i)
CurveTag(i) == Tag("Curve", i)
SurfaceTag(i) == Tag("Surface", i)
VolumeTag(i) == Tag("Volume", i)
WireTag(i) == Tag("Wire", i)

(* GmshResult<T> *)
Ok(v) == [kind |-> "Ok", val |-> v, err |-> "none"]
Err(e) == [kind |-> "Err", val |-> Unit, err |-> e]
(* A panic of the handler (arithmetic overflow in a debug build). *)
Panic == [kind |-> "Panic", val |-> Unit, err |-> "overflow"]

(* One gmsh_sys call as issued: the function (ns "occ", fn "add_point" is  *)
(* gmshModelOccAddPoint), its arguments, its status and return value, and  *)
(* the library's current model and initialization flag when it was issued. *)
Call(ns, fn, arg, st, ret, b) ==
    [ns |-> ns, fn |-> fn, arg |-> arg, st |-> st, ret |-> ret,
     cur |-> b.cur, init |-> b.init]

(* The course of a handler: the calls issued, the library's state after    *)
(* them, and the value returned.                                           *)
Run(calls, b, res) == [calls |-> calls, b |-> b, res |-> res]

-----------------------------------------------------------------------------
(* Error translation *)

check_main_error(ierr, v) ==
    CASE ierr = 0 -> Ok(v)
      [] ierr = -1 -> Err("Initialization")
      [] ierr = 1 -> Err("Execution")
      [] OTHER -> Err("UnknownError")

check_model_error(ierr, v) ==
    CASE ierr = 0 -> Ok(v)
      [] ierr = -1 -> Err("Initialization")
      [] ierr = 1 -> Err("ModelMutation")
      [] ierr = 2 -> Err("ModelLookup")
      [] ierr = 3 -> Err("ModelBadInput")
      [] ierr = 4 -> Err("ModelParallelMeshQuery")
      [] OTHER -> Err("UnknownError")

(* Faulty variant: status 1 of an option call taken for an unexpected one *)
check_option_error_unlisted(ierr, v) ==
    CASE ierr = 0 -> Ok(v)
      [] ierr = -1 -> Err("Initialization")
      [] OTHER -> Err("UnknownError")

(* check_option_error! *)
check_option_error(ierr, v) ==
    CASE ierr = 0 -> Ok(v)
      [] ierr = -1 -> Err("Initialization")
      [] ierr = 1 -> Err("UnknownOption")
      [] OTHER -> Err("UnknownError")

(* The match written out in every method of model/geo.rs *)
geo_model_error(ierr, v) ==
    CASE ierr = 0 -> Ok(v)
      [] ierr = -1 -> Err("Initialization")
      [] ierr = 1 -> Err("ModelMutation")
      [] ierr = 2 -> Err("ModelLookup")
      [] ierr = 3 -> Err("ModelBadInput")
      [] ierr = 4 -> Err("ModelParallelMeshQuery")
      [] OTHER -> Err("Execution")

(* The match of Geo::new *)
geo_new_error(ierr, v) ==
    CASE ierr = 0 -> Ok(v)
      [] ierr = -1 -> Err("Initialization")
      [] OTHER -> Err("Execution")

(* Faulty variant: status 1 passes for success. *)
execution_error_lenient(ierr, v) ==
    IF ierr \in {0, 1} THEN Ok(v) ELSE Err("Execution")

(* The match of set_current, Geo::set_to_current and Geo::remove *)
execution_error(ierr, v) ==
    IF ierr = 0 THEN Ok(v) ELSE Err("Execution")

-----------------------------------------------------------------------------
(* The gmsh library.  Each operator gives the outcomes [st, ret, b] the    *)
(* library may produce for one call from state b.                          *)

Outcome(st, ret, b) == [st |-> st, ret |-> ret, b |-> b]

(* An uninitialized library answers -1 to everything but gmshInitialize. *)
StatusesOf(b) == IF b.init THEN Statuses ELSE {-1}
Failures(b) == {Outcome(st, 0, b) : st \in StatusesOf(b) \ {0}}

NamedModels(b, name) == {m \in b.models : m.name = name}
FreeIds(b, hs) == (1..MaxModels) \ ({m.id : m \in b.models} \cup {h.id : h \in hs})

gmshInitialize(b) ==
    {Outcome(0, 0, [b EXCEPT !.init = TRUE, !.opts = DefaultOptions])}
        \cup {Outcome(st, 0, b) : st \in Statuses \ {0}}

(* A finalize that reports success has dropped the models; one that        *)
(* reports failure may or may not have.                                    *)
gmshFinalize(b) ==
    LET off == [init |-> FALSE, models |-> {}, cur |-> NoModel, opts |-> DefaultOptions]
    IN  IF b.init
        THEN {Outcome(0, 0, off)}
                 \cup {Outcome(st, 0, nb) : st \in Statuses \ {0}, nb \in {b, off}}
        ELSE Failures(b)

(* gmshModelAdd "also sets the added model as the current model" *)
gmshModelAdd(b, name, id) ==
    Failures(b) \cup
        IF b.init
        THEN {Outcome(0, 0, [b EXCEPT !.models = @ \cup {[id |-> id, name |-> name]},
                                      !.cur = id])}
        ELSE {}

(* The library looks the model up by name; with several models of one name *)
(* it is one of them.                                                      *)
gmshModelSetCurrent(b, name) ==
    Failures(b) \cup
        IF b.init
        THEN {Outcome(0, 0, [b EXCEPT !.cur = m.id]) : m \in NamedModels(b, name)}
        ELSE {}

(* Removes the current model; the library then makes another model (or a   *)
(* fresh unnamed one) current.                                             *)
gmshModelRemove(b) ==
    Failures(b) \cup
        IF b.init
        THEN LET left == {m \in b.models : m.id # b.cur}
             IN  {Outcome(0, 0, [b EXCEPT !.models = left, !.cur = c]) :
                      c \in {m.id : m \in left} \cup {NoModel}}
        ELSE {}

(* A kernel constructor: the tag is the library's choice. *)
gmshAdd(b) ==
    Failures(b) \cup
        IF b.init THEN {Outcome(0, t, b) : t \in TagVals} ELSE {}

(* Any other call: a status and no value. *)
gmshDo(b) ==
    Failures(b) \cup IF b.init THEN {Outcome(0, 0, b)} ELSE {}

(* The option calls.  A name the library does not know is answered with    *)
(* status 1 and nothing is stored; a call on a known name stores or reads  *)
(* the value, or fails like any other call.                                *)
gmshOptionSetNumber(b, name, value) ==
    IF ~b.init THEN Failures(b)
    ELSE IF name \in NumberOptions
         THEN Failures(b) \cup {Outcome(0, 0, [b EXCEPT !.opts.num[name] = value])}
         ELSE {Outcome(1, 0, b)}

gmshOptionGetNumber(b, name) ==
    IF ~b.init THEN Failures(b)
    ELSE IF name \in NumberOptions
         THEN Failures(b) \cup {Outcome(0, b.opts.num[name], b)}
         ELSE {Outcome(1, 0, b)}

gmshOptionSetString(b, name, value) ==
    IF ~b.init THEN Failures(b)
    ELSE IF name \in StringOptions
         THEN Failures(b) \cup {Outcome(0, 0, [b EXCEPT !.opts.str[name] = value])}
         ELSE {Outcome(1, 0, b)}

(* On failure the out pointer is left at the empty string. *)
gmshOptionGetString(b, name) ==
    IF ~b.init THEN {Outcome(-1, "", b)}
    ELSE IF name \in StringOptions
         THEN {Outcome(st, "", b) : st \in Statuses \ {0}}
                  \cup {Outcome(0, b.opts.str[name], b)}
         ELSE {Outcome(1, "", b)}

-----------------------------------------------------------------------------
(* The wrapper's functions, as the set of courses each may take from       *)
(* library state b.                                                        *)

(* One foreign call, its status translated by Check. *)
Invoke(ns, fn, arg, outs, b, Check(_, _), Val(_)) ==
    {Run(<<Call(ns, fn, arg, o.st, o.ret, b)>>, o.b, Check(o.st, Val(o.ret))) :
         o \in outs}

(* r?; k -- the rest runs only when r returned Ok. *)
Try(R, K(_)) ==
    UNION {IF r.res.kind # "Ok"
           THEN {r}
           ELSE {Run(r.calls \o k.calls, k.b, k.res) : k \in K(r.b)} : r \in R}

ToUnit(ret) == Unit

(* @kernel_prefix *)
kernel_prefix(h) == IF h.kernel = "OccModel" THEN "occ" ELSE "geo"

(* interface::get_cstring: a string with a NUL inside has no C form *)
get_cstring(s) == IF s \in NulStrs THEN Err("CInterface") ELSE Ok(s)

(* ---- impl_model!: GeoModel and OccModel ---- *)

(* Faulty variant: the status of the model add read as a model call's *)
create_as_model_call(b, h) ==
    IF get_cstring(h.name).kind # "Ok" THEN {Run(<<>>, b, get_cstring(h.name))}
    ELSE Invoke("model", "add", <<h.name>>, gmshModelAdd(b, h.name, h.id), b,
                check_model_error, LAMBDA ret : [kind |-> "Model", raw |-> h.id])

create(b, h) ==
    IF get_cstring(h.name).kind # "Ok" THEN {Run(<<>>, b, get_cstring(h.name))}
    ELSE Invoke("model", "add", <<h.name>>, gmshModelAdd(b, h.name, h.id), b,
                check_main_error, LAMBDA ret : [kind |-> "Model", raw |-> h.id])

(* Faulty variant: goes on without selecting the model. *)
set_current_unselected(b, h) == {Run(<<>>, b, Ok(Unit))}

(* Faulty variant: no select call when a model of the name is current *)
set_current_when_needed(b, h) ==
    IF [id |-> b.cur, name |-> h.name] \in b.models THEN {Run(<<>>, b, Ok(Unit))}
    ELSE Invoke("model", "set_current", <<h.name>>, gmshModelSetCurrent(b, h.name), b,
                execution_error, ToUnit)

set_current(b, h) ==
    Invoke("model", "set_current", <<h.name>>, gmshModelSetCurrent(b, h.name), b,
           execution_error, ToUnit)

(* Faulty variant: removes whatever model is current *)
remove_current(b, h) ==
    Invoke("model", "remove", <<>>, gmshModelRemove(b), b, check_main_error, ToUnit)

remove(b, h) ==
    Try(set_current(b, h),
        LAMBDA b1 : Invoke("model", "remove", <<>>, gmshModelRemove(b1), b1,
                           check_main_error, ToUnit))

synchronize(b, h) ==
    Try(set_current(b, h),
        LAMBDA b1 : Invoke(kernel_prefix(h), "synchronize", <<>>, gmshDo(b1), b1,
                           check_model_error, ToUnit))

(* Faulty variant: meshes without synchronizing. *)
generate_mesh_unsynchronized(b, h, dim) ==
    Try(set_current(b, h),
        LAMBDA b1 : Invoke("mesh", "generate", <<dim>>, gmshDo(b1), b1,
                           check_model_error, ToUnit))

generate_mesh(b, h, dim) ==
    Try(set_current(b, h),
        LAMBDA b1 : Try(synchronize(b1, h),
            LAMBDA b2 : Invoke("mesh", "generate", <<dim>>, gmshDo(b2), b2,
                               check_model_error, ToUnit)))

(* ---- model/occ.rs: OccModel ---- *)

(* mesh_size.unwrap_or(0.) and auto_number = -1; lc is 0 for None *)
(* factory::add_point and the translation of its status *)
occ_add_point_call(b, lc) ==
    Invoke("occ", "add_point", <<lc, -1>>, gmshAdd(b), b, check_model_error, PointTag)

occ_add_point_gen(b, h, lc) ==
    Try(set_current(b, h), LAMBDA b1 : occ_add_point_call(b1, lc))

(* Faulty variant: a mesh size of its own instead of the sentinel *)
occ_add_point_sized(b, h) == occ_add_point_gen(b, h, 1)

occ_add_point(b, h) == occ_add_point_gen(b, h, 0)

occ_add_point_with_lc(b, h, lc) == occ_add_point_gen(b, h, lc)

(* factory::add_line and the translation of its status *)
occ_add_line_call(b, p1, p2) ==
    Invoke("occ", "add_line", <<p1.raw, p2.raw, -1>>, gmshAdd(b), b,
           check_model_error, CurveTag)

occ_add_line(b, h, p1, p2) ==
    Try(set_current(b, h), LAMBDA b1 : occ_add_line_call(b1, p1, p2))

(* curves.iter().map(|c| c.to_raw()).collect() *)
RawTags(curves) == [i \in 1..Len(curves) |-> curves[i].raw]

(* Faulty variant: the curves handed over last first *)
add_curve_loop_reversed(b, h, curves) ==
    Try(set_current(b, h),
        LAMBDA b1 : Invoke(kernel_prefix(h), "add_curve_loop",
                           <<[i \in 1..Len(curves) |-> curves[Len(curves) + 1 - i].raw],
                             Len(curves), -1>>,
                           gmshAdd(b1), b1, check_model_error, WireTag))

(* add_curve_loop of the kernel operations (the reference implementation   *)
(* kept as a comment in model/mod.rs)                                      *)
add_curve_loop(b, h, curves) ==
    Try(set_current(b, h),
        LAMBDA b1 : Invoke(kernel_prefix(h), "add_curve_loop",
                           <<RawTags(curves), Len(curves), -1>>,
                           gmshAdd(b1), b1, check_model_error, WireTag))

occ_add_box(b, h) ==
    Try(set_current(b, h),
        LAMBDA b1 : Invoke("occ", "add_box", <<-1>>, gmshAdd(b1), b1,
                           check_model_error, VolumeTag))

occ_add_sphere_gen(b, h) ==
    Try(set_current(b, h),
        LAMBDA b1 : Invoke("occ", "add_sphere", <<-1>>, gmshAdd(b1), b1,
                           check_model_error, VolumeTag))

occ_add_torus_gen(b, h) ==
    Try(set_current(b, h),
        LAMBDA b1 : Invoke("occ", "add_torus", <<-1>>, gmshAdd(b1), b1,
                           check_model_error, VolumeTag))

(* ---- model/geo.rs: Geo ---- *)

geo_new(b, h) ==
    IF get_cstring(h.name).kind # "Ok" THEN {Run(<<>>, b, get_cstring(h.name))}
    ELSE Invoke("model", "add", <<h.name>>, gmshModelAdd(b, h.name, h.id), b,
                geo_new_error, LAMBDA ret : [kind |-> "Model", raw |-> h.id])

set_to_current(b, h) ==
    Invoke("model", "set_current", <<h.name>>, gmshModelSetCurrent(b, h.name), b,
           execution_error, ToUnit)

geo_remove(b, h) ==
    Try(set_to_current(b, h),
        LAMBDA b1 : Invoke("model", "remove", <<>>, gmshModelRemove(b1), b1,
                           execution_error, ToUnit))

geo_add_point_gen(b, h, lc) ==
    Invoke("geo", "add_point", <<lc, -1>>, gmshAdd(b), b, geo_model_error, PointTag)

geo_add_point(b, h) ==
    Try(set_to_current(b, h), LAMBDA b1 : geo_add_point_gen(b1, h, 0))

geo_add_point_with_lc(b, h, lc) ==
    Try(set_to_current(b, h), LAMBDA b1 : geo_add_point_gen(b1, h, lc))

(* Faulty variant: the removal asked to take the dependent entities along *)
geo_remove_point_recursive(b, h, p) ==
    Try(set_to_current(b, h),
        LAMBDA b1 : Invoke("geo", "remove", <<p.raw, 1, 1>>, gmshDo(b1), b1,
                           geo_model_error, ToUnit))

geo_remove_point(b, h, p) ==
    Try(set_to_current(b, h),
        LAMBDA b1 : Invoke("geo", "remove", <<p.raw, 1, 0>>, gmshDo(b1), b1,
                           geo_model_error, ToUnit))

geo_add_line(b, h, p1, p2) ==
    Try(set_to_current(b, h),
        LAMBDA b1 : Invoke("geo", "add_line", <<p1.raw, p2.raw, -1>>, gmshAdd(b1), b1,
                           geo_model_error, CurveTag))

(* prints the curves and answers Ok(SurfaceTag(1)); no kernel call *)
geo_add_surface(b, h, curves) ==
    Try(set_to_current(b, h), LAMBDA b1 : {Run(<<>>, b1, Ok(SurfaceTag(1)))})

geo_synchronize(b, h) ==
    Try(set_to_current(b, h),
        LAMBDA b1 : Invoke("geo", "synchronize", <<>>, gmshDo(b1), b1,
                           geo_model_error, ToUnit))

geo_generate_mesh(b, h, dim) ==
    Try(set_to_current(b, h),
        LAMBDA b1 : Try(geo_synchronize(b1, h),
            LAMBDA b2 : Invoke("mesh", "generate", <<dim>>, gmshDo(b2), b2,
                               geo_model_error, ToUnit)))

(* ---- model/mod.rs: tags ---- *)

(* -i on an i32: i32::MIN has no negation; a build with overflow checks    *)
(* panics there and a build without them wraps to i32::MIN.                *)
wrapping_neg(i) == IF i = MinI32 THEN MinI32 ELSE -i

(* Faulty variant: the tag comes back as it went in. *)
neg_identity(c) == {Ok(c)}

neg(c) ==
    IF c.raw = MinI32
    THEN {Panic, Ok(CurveTag(wrapping_neg(c.raw)))}
    ELSE {Ok(CurveTag(-c.raw))}

(* The tag kinds with an impl From<..> for CurveOrSurface *)
IntoCurveOrSurface == {"Curve", "Surface"}

(* Faulty variant: the two variants exchanged. *)
into_curve_or_surface_swapped(t) ==
    CASE t.kind = "Curve" -> [variant |-> "Surface", raw |-> t.raw]
      [] t.kind = "Surface" -> [variant |-> "Curve", raw |-> t.raw]

(* From<CurveTag> and From<SurfaceTag> for CurveOrSurface *)
into_curve_or_surface(t) ==
    CASE t.kind = "Curve" -> [variant |-> "Curve", raw |-> t.raw]
      [] t.kind = "Surface" -> [variant |-> "Surface", raw |-> t.raw]

(* Geo::curve_or_surface_op: converts, matches and prints; no foreign call *)
(* Faulty variant: the model selected first, as in the other methods *)
curve_or_surface_op_selecting(b, h, t) ==
    Try(set_to_current(b, h), LAMBDA b1 : {Run(<<>>, b1, Ok(Unit))})

curve_or_surface_op(b, h, t) == {Run(<<>>, b, Ok(Unit))}

(* ---- lib.rs: Gmsh ---- *)

(* "don't check finalization errors" *)
unchecked(ierr, v) == Ok(v)

(* Faulty variant: the finalize status is reported. *)
drop_checked(b) ==
    Invoke("gmsh", "finalize", <<>>, gmshFinalize(b), b, check_main_error, ToUnit)

drop(b) ==
    Invoke("gmsh", "finalize", <<>>, gmshFinalize(b), b, unchecked, ToUnit)

Number(v) == [kind |-> "Number", raw |-> v]
String(v) == [kind |-> "String", raw |-> v]

(* Faulty variant: the initial value of the out parameter handed back when *)
(* the library does not know the name.                                     *)
get_number_option_defaulting(b, name) ==
    IF get_cstring(name).kind # "Ok" THEN {Run(<<>>, b, get_cstring(name))}
    ELSE {Run(<<Call("option", "get_number", <<name>>, o.st, o.ret, b)>>, o.b,
              IF o.st = 1 THEN Ok(Number(0)) ELSE check_option_error(o.st, Number(o.ret))) :
              o \in gmshOptionGetNumber(b, name)}

(* Gmsh::get_number_option *)
get_number_option(b, name) ==
    IF get_cstring(name).kind # "Ok" THEN {Run(<<>>, b, get_cstring(name))}
    ELSE Invoke("option", "get_number", <<name>>, gmshOptionGetNumber(b, name), b,
                check_option_error, Number)

set_number_option(b, name, value) ==
    IF get_cstring(name).kind # "Ok" THEN {Run(<<>>, b, get_cstring(name))}
    ELSE Invoke("option", "set_number", <<name, value>>,
                gmshOptionSetNumber(b, name, value), b, check_option_error, ToUnit)

(* Every value the library holds is UTF-8 (its defaults, and the values    *)
(* set from a Rust &str), so CStr::to_str gives the string back.           *)
get_string_option(b, name) ==
    IF get_cstring(name).kind # "Ok" THEN {Run(<<>>, b, get_cstring(name))}
    ELSE Invoke("option", "get_string", <<name>>, gmshOptionGetString(b, name), b,
                check_option_error, String)

(* Faulty variant: the value handed to the library as it is *)
set_string_option_unconverted(b, name, value) ==
    IF get_cstring(name).kind # "Ok" THEN {Run(<<>>, b, get_cstring(name))}
    ELSE Invoke("option", "set_string", <<name, value>>,
                gmshOptionSetString(b, name, value), b, check_option_error, ToUnit)

(* Faulty variant: the name's C string handed over in the value's place *)
set_string_option_misplaced(b, name, value) ==
    IF get_cstring(name).kind # "Ok" THEN {Run(<<>>, b, get_cstring(name))}
    ELSE IF get_cstring(value).kind # "Ok" THEN {Run(<<>>, b, get_cstring(value))}
    ELSE Invoke("option", "set_string", <<name, name>>,
                gmshOptionSetString(b, name, name), b, check_option_error, ToUnit)

(* Gmsh::set_string_option *)
set_string_option(b, name, value) ==
    IF get_cstring(name).kind # "Ok" THEN {Run(<<>>, b, get_cstring(name))}
    ELSE IF get_cstring(value).kind # "Ok" THEN {Run(<<>>, b, get_cstring(value))}
    ELSE Invoke("option", "set_string", <<name, value>>,
                gmshOptionSetString(b, name, value), b, check_option_error, ToUnit)

(* Faulty variant: the context is handed out whatever setting the option  *)
(* returned.                                                               *)
initialize_unchecked(b, sid) ==
    UNION {
        LET c0 == <<Call("gmsh", "initialize", <<>>, o.st, o.ret, b)>>
        IN  IF o.st = 0
            THEN {Run(c0 \o r.calls, r.b, Ok([kind |-> "Gmsh", raw |-> sid])) :
                      r \in set_number_option(o.b, "General.Terminal", 1)}
            ELSE {Run(c0, o.b, Err("Initialization"))}
        : o \in gmshInitialize(b)}

(* Faulty variant: the context made so far is not dropped when setting the *)
(* option fails.                                                           *)
initialize_leaking(b, sid) ==
    UNION {
        LET c0 == <<Call("gmsh", "initialize", <<>>, o.st, o.ret, b)>>
        IN  IF o.st = 0
            THEN UNION {
                     IF r.res.kind = "Ok"
                     THEN {Run(c0 \o r.calls, r.b, Ok([kind |-> "Gmsh", raw |-> sid]))}
                     ELSE {Run(c0 \o r.calls, r.b, r.res)}
                     : r \in set_number_option(o.b, "General.Terminal", 1)}
            ELSE {Run(c0, o.b, Err("Initialization"))}
        : o \in gmshInitialize(b)}

(* On status 0 the context is made and General.Terminal set; when that     *)
(* fails the context made so far goes out of scope, which drops it.        *)
initialize(b, sid) ==
    UNION {
        LET c0 == <<Call("gmsh", "initialize", <<>>, o.st, o.ret, b)>>
        IN  IF o.st = 0
            THEN UNION {
                     IF r.res.kind = "Ok"
                     THEN {Run(c0 \o r.calls, r.b, Ok([kind |-> "Gmsh", raw |-> sid]))}
                     ELSE {Run(c0 \o r.calls \o d.calls, d.b, r.res) : d \in drop(r.b)}
                     : r \in set_number_option(o.b, "General.Terminal", 1)}
            ELSE {Run(c0, o.b, Err("Initialization"))}
        : o \in gmshInitialize(b)}

-----------------------------------------------------------------------------
(* The state machine *)

Min(S) == CHOOSE x \in S : \A y \in S : x <= y

Points == {t \in tags : t.kind = "Point"}
Curves == {t \in tags : t.kind = "Curve"}

(* No point numbered yet; no client thread besides the main one. *)
NoNumbers ==
    [pts |-> [m \in 1..MaxModels |-> {}],
     live |-> [m \in 1..MaxModels |-> {}],
     first |-> [m \in 1..MaxModels |-> 0]]
NoThreads == <<>>

(* The options once Gmsh::initialize() has set General.Terminal *)
InitializedOptions == [DefaultOptions EXCEPT !.num["General.Terminal"] = 1]

NoOp ==
    [name |-> "none", h |-> NoHandle, sess |-> 0, ins |-> <<>>, entity |-> NoEntity]

Init ==
    /\ backend = [init |-> FALSE, models |-> {}, cur |-> NoModel, opts |-> DefaultOptions]
    /\ sessions = {}
    /\ handles = {}
    /\ tags = {}
    /\ op = NoOp
    /\ log = <<>>
    /\ result = Ok(Unit)
    /\ numbers = NoNumbers
    /\ threads = NoThreads

(* The client is between two calls. *)
Idle == op = NoOp

(* The handler `name` took course r. *)
Return(name, h, sid, ins, entity, r) ==
    /\ backend' = r.b
    /\ op' = [name |-> name, h |-> h, sess |-> sid, ins |-> ins, entity |-> entity]
    /\ log' = r.calls
    /\ result' = r.res

Finish(name, h, sid, ins, entity, r) ==
    /\ Return(name, h, sid, ins, entity, r)
    /\ UNCHANGED <<numbers, threads>>

ModelOp(name, h, ins, R) ==
    \E r \in R :
        /\ Finish(name, h, h.sess, ins, NoEntity, r)
        /\ UNCHANGED <<sessions, handles, tags>>

(* Gmsh::initialize() *)
Initialize ==
    /\ Idle
    /\ (1..MaxSessions) \ sessions # {}
    /\ LET sid == Min((1..MaxSessions) \ sessions)
       IN  \E r \in initialize(backend, sid) :
               /\ Finish("initialize", NoHandle, sid, <<>>, NoEntity, r)
               /\ sessions' = IF r.res.kind = "Ok" THEN sessions \cup {sid} ELSE sessions
               /\ UNCHANGED <<handles, tags>>

(* The Gmsh value goes out of scope.  The models made from it borrow it,   *)
(* so none of them is used afterwards.                                     *)
Drop(sid) ==
    /\ Idle
    /\ sid \in sessions
    /\ \E r \in drop(backend) :
           /\ Finish("drop", NoHandle, sid, <<>>, NoEntity, r)
           /\ sessions' = sessions \ {sid}
           /\ handles' = {h \in handles : h.sess # sid}
           /\ UNCHANGED tags

(* Gmsh::create_native_model, Gmsh::create_occ_model, Geo::new *)
CreateModel(sid, name, kernel) ==
    /\ Idle
    /\ sid \in sessions
    /\ FreeIds(backend, handles) # {}
    /\ LET h == [id |-> Min(FreeIds(backend, handles)), name |-> name,
                 kernel |-> kernel, sess |-> sid]
       IN  \E r \in (IF kernel = "Geo" THEN geo_new(backend, h) ELSE create(backend, h)) :
               /\ Finish("create", h, sid, <<>>, NoEntity, r)
               /\ handles' = IF r.res.kind = "Ok" THEN handles \cup {h} ELSE handles
               /\ UNCHANGED <<sessions, tags>>

(* remove(self): the handle is gone whatever is returned *)
Remove(h) ==
    /\ Idle
    /\ h \in handles
    /\ \E r \in (IF h.kernel = "Geo" THEN geo_remove(backend, h) ELSE remove(backend, h)) :
           /\ Finish("remove", h, h.sess, <<>>, NoEntity, r)
           /\ handles' = handles \ {h}
           /\ UNCHANGED <<sessions, tags>>

Synchronize(h) ==
    /\ Idle
    /\ h \in handles
    /\ ModelOp("synchronize", h, <<>>,
               IF h.kernel = "Geo" THEN geo_synchronize(backend, h)
               ELSE synchronize(backend, h))

GenerateMesh(h, dim) ==
    /\ Idle
    /\ h \in handles
    /\ ModelOp("generate_mesh", h, <<dim>>,
               IF h.kernel = "Geo" THEN geo_generate_mesh(backend, h, dim)
               ELSE generate_mesh(backend, h, dim))

AddPoint(h) ==
    /\ Idle
    /\ h \in handles
    /\ h.kernel \in {"OccModel", "Geo"}
    /\ ModelOp("add_point", h, <<>>,
               IF h.kernel = "Geo" THEN geo_add_point(backend, h)
             ELSE occ_add_point(backend, h))

AddPointWithLc(h, lc) ==
    /\ Idle
    /\ h \in handles
    /\ h.kernel \in {"OccModel", "Geo"}
    /\ ModelOp("add_point_with_lc", h, <<lc>>,
               IF h.kernel = "Geo" THEN geo_add_point_with_lc(backend, h, lc)
             ELSE occ_add_point_with_lc(backend, h, lc))

AddLine(h, p1, p2) ==
    /\ Idle
    /\ h \in handles
    /\ h.kernel \in {"OccModel", "Geo"}
    /\ ModelOp("add_line", h, <<p1, p2>>,
               IF h.kernel = "Geo" THEN geo_add_line(backend, h, p1, p2)
             ELSE occ_add_line(backend, h, p1, p2))

RemovePoint(h, p) ==
    /\ Idle
    /\ h \in handles
    /\ h.kernel = "Geo"
    /\ ModelOp("remove_point", h, <<p>>, geo_remove_point(backend, h, p))

AddSurface(h, curves) ==
    /\ Idle
    /\ h \in handles
    /\ h.kernel = "Geo"
    /\ ModelOp("add_surface", h, curves, geo_add_surface(backend, h, curves))

AddBox(h) ==
    /\ Idle
    /\ h \in handles
    /\ h.kernel = "OccModel"
    /\ ModelOp("add_box", h, <<>>, occ_add_box(backend, h))

AddSphere(h) ==
    /\ Idle
    /\ h \in handles
    /\ h.kernel = "OccModel"
    /\ ModelOp("add_sphere", h, <<>>, occ_add_sphere_gen(backend, h))

AddTorus(h) ==
    /\ Idle
    /\ h \in handles
    /\ h.kernel = "OccModel"
    /\ ModelOp("add_torus", h, <<>>, occ_add_torus_gen(backend, h))

(* T: Into<CurveOrSurface> admits the tag kinds with a From impl *)
CurveOrSurfaceOp(h, t) ==
    /\ Idle
    /\ h \in handles
    /\ h.kernel = "Geo"
    /\ t.kind \in IntoCurveOrSurface
    /\ \E r \in curve_or_surface_op(backend, h, t) :
           /\ Finish("curve_or_surface_op", h, h.sess, <<t>>, into_curve_or_surface(t), r)
           /\ UNCHANGED <<sessions, handles, tags>>

(* -c on a CurveTag *)
Neg(c) ==
    /\ Idle
    /\ c.kind = "Curve"
    /\ \E res \in neg(c) :
           /\ Finish("neg", NoHandle, 0, <<c>>, NoEntity, Run(<<>>, backend, res))
           /\ UNCHANGED <<sessions, handles, tags>>

(* A model handle goes out of scope: GeoModel, OccModel and Geo have no    *)
(* Drop, so nothing is called and the library keeps the model.            *)
DropModel(h) ==
    /\ Idle
    /\ h \in handles
    /\ Finish("drop_model", h, h.sess, <<>>, NoEntity, Run(<<>>, backend, Ok(Unit)))
    /\ handles' = handles \ {h}
    /\ UNCHANGED <<sessions, tags>>

(* The option accessors of a live context *)
OptionOp(name, sid, ins, R) ==
    \E r \in R :
        /\ Finish(name, NoHandle, sid, ins, NoEntity, r)
        /\ UNCHANGED <<sessions, handles, tags>>

GetNumberOption(sid, name) ==
    /\ Idle
    /\ sid \in sessions
    /\ OptionOp("get_number_option", sid, <<name>>, get_number_option(backend, name))

SetNumberOption(sid, name, value) ==
    /\ Idle
    /\ sid \in sessions
    /\ OptionOp("set_number_option", sid, <<name, value>>,
                set_number_option(backend, name, value))

GetStringOption(sid, name) ==
    /\ Idle
    /\ sid \in sessions
    /\ OptionOp("get_string_option", sid, <<name>>, get_string_option(backend, name))

SetStringOption(sid, name, value) ==
    /\ Idle
    /\ sid \in sessions
    /\ OptionOp("set_string_option", sid, <<name, value>>,
                set_string_option(backend, name, value))

TagKinds == {"Point", "Curve", "Surface", "Volume"}

(* The client has looked at what the call returned and goes on. *)
Continue ==
    /\ ~Idle
    /\ op' = NoOp
    /\ log' = <<>>
    /\ result' = Ok(Unit)
    /\ UNCHANGED <<backend, sessions, handles, tags, numbers, threads>>

(* The client goes on and keeps the tag the call returned, to hand it to a *)
(* later call.  Tags are Copy values; the client holds at most MaxTags of  *)
(* them.                                                                   *)
ContinueKeep ==
    /\ ~Idle
    /\ result.kind = "Ok"
    /\ result.val.kind \in TagKinds
    /\ result.val \notin tags
    /\ Cardinality(tags) < MaxTags
    /\ tags' = tags \cup {result.val}
    /\ op' = NoOp
    /\ log' = <<>>
    /\ result' = Ok(Unit)
    /\ UNCHANGED <<backend, sessions, handles, numbers, threads>>

(* Contexts and models; the client lets the tags go. *)
Next ==
    \/ Continue
    \/ Initialize
    \/ \E sid \in sessions : Drop(sid)
    \/ \E sid \in sessions, name \in ModelNames, kernel \in Kernels :
           CreateModel(sid, name, kernel)
    \/ \E h \in handles : Remove(h)
    \/ \E h \in handles : Synchronize(h)
    \/ \E h \in handles, dim \in Dims : GenerateMesh(h, dim)
    \/ \E h \in handles : AddPoint(h)
    \/ \E h \in handles, lc \in Lcs : AddPointWithLc(h, lc)
    \/ \E h \in handles : AddBox(h)
    \/ \E h \in handles : AddSphere(h)
    \/ \E h \in handles : AddTorus(h)

Spec == Init /\ [][Next]_vars

(* The models and tags of one context: the state after Gmsh::initialize()  *)
(* returned Ok.                                                            *)
InitModels ==
    /\ backend = [init |-> TRUE, models |-> {}, cur |-> NoModel, opts |-> InitializedOptions]
    /\ sessions = {1}
    /\ handles = {}
    /\ tags = {}
    /\ op = NoOp
    /\ log = <<>>
    /\ result = Ok(Unit)
    /\ numbers = NoNumbers
    /\ threads = NoThreads

NextModels ==
    \/ Continue
    \/ ContinueKeep
    \/ \E sid \in sessions, name \in NewModelNames, kernel \in Kernels :
           CreateModel(sid, name, kernel)
    \/ \E h \in handles : Remove(h)
    \/ \E h \in handles : Synchronize(h)
    \/ \E h \in handles, dim \in Dims : GenerateMesh(h, dim)
    \/ \E h \in handles : AddPoint(h)
    \/ \E h \in handles, lc \in Lcs : AddPointWithLc(h, lc)
    \/ \E h \in handles, p1 \in Points, p2 \in Points : AddLine(h, p1, p2)
    \/ \E h \in handles, p \in Points : RemovePoint(h, p)
    \/ \E h \in handles, cs \in {<<>>} \cup {<<c>> : c \in Curves} : AddSurface(h, cs)
    \/ \E h \in handles : AddBox(h)
    \/ \E h \in handles : AddSphere(h)
    \/ \E h \in handles : AddTorus(h)
    \/ \E h \in handles, t \in tags : CurveOrSurfaceOp(h, t)
    \/ \E c \in Curves : Neg(c)

SpecModels == InitModels /\ [][NextModels]_vars

(* The options of one context, with model operations in between. *)
NextOptions ==
    \/ Continue
    \/ \E sid \in sessions, name \in OptionNames : GetNumberOption(sid, name)
    \/ \E sid \in sessions, name \in OptionNames, value \in NumberVals :
           SetNumberOption(sid, name, value)
    \/ \E sid \in sessions, name \in OptionNames : GetStringOption(sid, name)
    \/ \E sid \in sessions, name \in OptionNames, value \in StringVals \cup NulStrs :
           SetStringOption(sid, name, value)
    \/ \E sid \in sessions, name \in NewModelNames, kernel \in Kernels :
           CreateModel(sid, name, kernel)
    \/ \E h \in handles : Synchronize(h)
    \/ \E h \in handles : AddPoint(h)

SpecOptions == InitModels /\ [][NextOptions]_vars

(* ---- The points of the models of one context ---- *)

(* The kernels number the points of each model by themselves: the first    *)
(* point of a model is 1, and a later one gets a number no point of the    *)
(* model bears ("if tags are removed from a model, they can be used        *)
(* again").                                                                *)
NextPointTags(pts) == IF pts = {} THEN {1} ELSE TagVals \ pts

(* The courses of an add_point in which the kernel numbers the point as    *)
(* NextPointTags says; it is the last call of a course that returns Ok.    *)
NumberedRuns(R) ==
    {r \in R : r.res.kind = "Ok" =>
         r.res.val.raw \in NextPointTags(numbers.pts[r.calls[Len(r.calls)].cur])}

(* numbers after handle h was handed point t of the current model m *)
PointAdded(h, m, t) ==
    [pts |-> [numbers.pts EXCEPT ![m] = @ \cup {t}],
     live |-> [numbers.live EXCEPT ![h.id] = @ \cup {t}],
     first |-> [numbers.first EXCEPT ![h.id] = IF @ = 0 THEN t ELSE @]]

(* numbers after point t of the current model m was removed through h *)
PointRemoved(h, m, t) ==
    [pts |-> [numbers.pts EXCEPT ![m] = @ \ {t}],
     live |-> [numbers.live EXCEPT ![h.id] = @ \ {t}],
     first |-> numbers.first]

PointOp(name, h, ins, R) ==
    \E r \in NumberedRuns(R) :
        /\ Return(name, h, h.sess, ins, NoEntity, r)
        /\ numbers' = IF r.res.kind = "Ok"
                      THEN PointAdded(h, r.calls[Len(r.calls)].cur, r.res.val.raw)
                      ELSE numbers
        /\ UNCHANGED <<sessions, handles, tags, threads>>

NumberedAddPoint(h) ==
    /\ Idle
    /\ h \in handles
    /\ h.kernel \in {"OccModel", "Geo"}
    /\ PointOp("add_point", h, <<>>,
               IF h.kernel = "Geo" THEN geo_add_point(backend, h)
               ELSE occ_add_point(backend, h))

NumberedAddPointWithLc(h, lc) ==
    /\ Idle
    /\ h \in handles
    /\ h.kernel \in {"OccModel", "Geo"}
    /\ PointOp("add_point_with_lc", h, <<lc>>,
               IF h.kernel = "Geo" THEN geo_add_point_with_lc(backend, h, lc)
               ELSE occ_add_point_with_lc(backend, h, lc))

NumberedRemovePoint(h, p) ==
    /\ Idle
    /\ h \in handles
    /\ h.kernel = "Geo"
    /\ \E r \in geo_remove_point(backend, h, p) :
           /\ Return("remove_point", h, h.sess, <<p>>, NoEntity, r)
           /\ numbers' = IF r.res.kind = "Ok"
                         THEN PointRemoved(h, r.calls[Len(r.calls)].cur, p.raw)
                         ELSE numbers
           /\ UNCHANGED <<sessions, handles, tags, threads>>

NextPoints ==
    \/ Continue
    \/ ContinueKeep
    \/ \E sid \in sessions, name \in ModelNames, kernel \in {"OccModel", "Geo"} :
           CreateModel(sid, name, kernel)
    \/ \E h \in handles : NumberedAddPoint(h)
    \/ \E h \in handles, lc \in Lcs \ {0} : NumberedAddPointWithLc(h, lc)
    \/ \E h \in handles, p \in Points : NumberedRemovePoint(h, p)
    \/ \E h \in handles, p1 \in Points : \E p2 \in Points \ {p1} : AddLine(h, p1, p2)

SpecPoints == InitModels /\ [][NextPoints]_vars

(* ---- Two threads, each with a model of the one context ---- *)

(* GeoModel and OccModel hold a name, a C string and a PhantomData of a    *)
(* shared reference to the (field-less, hence Sync) Gmsh: both are Send,   *)
(* so each of two threads may own one and call its methods.  A method is   *)
(* two foreign calls, the selection and the kernel call; nothing keeps     *)
(* another thread from making a call in between.                           *)
ThreadIds == {1, 2}

ThreadIdle(h) ==
    [h |-> h, pc |-> "idle", name |-> "none", ins |-> <<>>, log |-> <<>>,
     result |-> Ok(Unit)]

ThreadOps ==
    {[name |-> "add_point", ins |-> <<>>]} \cup
    {[name |-> "add_line", ins |-> <<PointTag(t1), PointTag(t2)>>] :
         t1 \in TagVals, t2 \in TagVals}

InitThreads ==
    /\ backend = [init |-> TRUE,
                  models |-> {[id |-> 1, name |-> "a"], [id |-> 2, name |-> "b"]},
                  cur |-> 2, opts |-> InitializedOptions]
    /\ sessions = {1}
    /\ handles = {[id |-> 1, name |-> "a", kernel |-> "OccModel", sess |-> 1],
                  [id |-> 2, name |-> "b", kernel |-> "OccModel", sess |-> 1]}
    /\ tags = {}
    /\ op = NoOp
    /\ log = <<>>
    /\ result = Ok(Unit)
    /\ numbers = NoNumbers
    /\ threads = [t \in ThreadIds |-> ThreadIdle(CHOOSE h \in handles : h.id = t)]

(* Thread t enters a method of its model: self.set_current()? *)
ThreadSelect(t, o) ==
    /\ threads[t].pc = "idle"
    /\ \E r \in set_current(backend, threads[t].h) :
           /\ backend' = r.b
           /\ threads' = [threads EXCEPT ![t] =
                  [h |-> @.h, pc |-> IF r.res.kind = "Ok" THEN "selected" ELSE "returned",
                   name |-> o.name, ins |-> o.ins, log |-> r.calls, result |-> r.res]]
    /\ UNCHANGED <<sessions, handles, tags, op, log, result, numbers>>

(* Thread t goes on to the kernel call of the method it is in *)
ThreadOperate(t) ==
    /\ threads[t].pc = "selected"
    /\ \E r \in (IF threads[t].name = "add_point"
                  THEN occ_add_point_call(backend, 0)
                  ELSE occ_add_line_call(backend, threads[t].ins[1], threads[t].ins[2])) :
           /\ backend' = r.b
           /\ threads' = [threads EXCEPT ![t].pc = "returned",
                                         ![t].log = @ \o r.calls,
                                         ![t].result = r.res]
    /\ UNCHANGED <<sessions, handles, tags, op, log, result, numbers>>

(* The method of thread t has returned *)
ThreadReturn(t) ==
    /\ threads[t].pc = "returned"
    /\ threads' = [threads EXCEPT ![t] = ThreadIdle(@.h)]
    /\ UNCHANGED <<backend, sessions, handles, tags, op, log, result, numbers>>

NextThreads ==
    \/ \E t \in ThreadIds, o \in ThreadOps : ThreadSelect(t, o)
    \/ \E t \in ThreadIds : ThreadOperate(t)
    \/ \E t \in ThreadIds : ThreadReturn(t)

SpecThreads == InitThreads /\ [][NextThreads]_vars

(* ---- The current model of the library, under every kind of operation ---- *)

NextCurrent ==
    \/ Continue
    \/ ContinueKeep
    \/ \E sid \in sessions : Drop(sid)
    \/ \E sid \in sessions, name \in ModelNames, kernel \in {"OccModel", "Geo"} :
           CreateModel(sid, name, kernel)
    \/ \E h \in handles : Remove(h)
    \/ \E h \in handles : DropModel(h)
    \/ \E h \in handles : Synchronize(h)
    \/ \E h \in handles, p1 \in Points, p2 \in Points : AddLine(h, p1, p2)
    \/ \E h \in handles : AddPoint(h)
    \/ \E h \in handles, t \in tags : CurveOrSurfaceOp(h, t)
    \/ \E c \in Curves : Neg(c)
    \/ \E sid \in sessions : GetNumberOption(sid, "General.Axes")
    \/ \E sid \in sessions : SetNumberOption(sid, "General.Axes", 5)
    \/ \E sid \in sessions : GetStringOption(sid, "Solver.Name0")
    \/ \E sid \in sessions : SetStringOption(sid, "Solver.Name0", "TEST_NAME_1")

SpecCurrent == InitModels /\ [][NextCurrent]_vars

(* ---- Curve loops: one context, a model of each kernel, signed curves ---- *)

LoopRaws == {-2, -1, 1, 2}

CurveSeqs == UNION {[1..n -> Curves] : n \in 0..MaxLoop}

InitLoops ==
    /\ backend = [init |-> TRUE,
                  models |-> {[id |-> 1, name |-> "a"], [id |-> 2, name |-> "b"]},
                  cur |-> 2, opts |-> InitializedOptions]
    /\ sessions = {1}
    /\ handles = {[id |-> 1, name |-> "a", kernel |-> "GeoModel", sess |-> 1],
                  [id |-> 2, name |-> "b", kernel |-> "OccModel", sess |-> 1]}
    /\ tags \in {{CurveTag(i), CurveTag(j)} : i, j \in LoopRaws}
    /\ op = NoOp
    /\ log = <<>>
    /\ result = Ok(Unit)
    /\ numbers = NoNumbers
    /\ threads = NoThreads

AddCurveLoop(h, curves) ==
    /\ Idle
    /\ h \in handles
    /\ h.kernel \in {"GeoModel", "OccModel"}
    /\ ModelOp("add_curve_loop", h, curves, add_curve_loop(backend, h, curves))

NextLoops ==
    \/ Continue
    \/ \E h \in handles, curves \in CurveSeqs : AddCurveLoop(h, curves)

SpecLoops == InitLoops /\ [][NextLoops]_vars

(* The tag values by themselves: one context, one Geo model and one or two *)
(* tags of any kind, their raw values anywhere in the i32 range.           *)
I32Samples ==
    {MinI32, MinI32 + 1, -3, -2, -1, 0, 1, 2, 3, MaxI32 - 1, MaxI32}

InitTagOps ==
    /\ backend = [init |-> TRUE, models |-> {[id |-> 1, name |-> "a"]}, cur |-> 1,
                  opts |-> InitializedOptions]
    /\ sessions = {1}
    /\ handles = {[id |-> 1, name |-> "a", kernel |-> "Geo", sess |-> 1]}
    /\ tags \in {{t1, t2} : t1, t2 \in {Tag(k, i) : k \in TagKinds, i \in I32Samples}}
    /\ op = NoOp
    /\ log = <<>>
    /\ result = Ok(Unit)
    /\ numbers = NoNumbers
    /\ threads = NoThreads

NextTagOps ==
    \/ Continue
    \/ ContinueKeep
    \/ \E h \in handles, t \in tags : CurveOrSurfaceOp(h, t)
    \/ \E c \in Curves : Neg(c)

SpecTagOps == InitTagOps /\ [][NextTagOps]_vars

-----------------------------------------------------------------------------
(* Properties *)

(* The operations made on a model handle *)
ModelOpNames ==
    {"remove", "synchronize", "generate_mesh", "add_point", "add_point_with_lc",
     "add_line", "remove_point", "add_surface", "add_box", "add_sphere",
     "add_torus", "curve_or_surface_op"}

(* The operations that hand out a tag made by a kernel *)
ConstructorNames ==
    {"add_point", "add_point_with_lc", "add_line", "add_surface", "add_box",
     "add_sphere", "add_torus"}

IsSelect(c) == c.ns = "model" /\ c.fn = "set_current"
IsSynchronize(c) == c.ns \in {"geo", "occ"} /\ c.fn = "synchronize"
IsMeshGenerate(c) == c.ns = "mesh" /\ c.fn = "generate"
(* The call an operation is made for: anything but the selection *)
IsSubstantive(c) == c.ns \in {"geo", "occ", "mesh"} \/ (c.ns = "model" /\ c.fn = "remove")

(* No two models, in the library or held by the client, share a name. *)
DistinctNames ==
    \A x, y \in {[id |-> h.id, name |-> h.name] : h \in handles} \cup backend.models :
        x.name = y.name => x.id = y.id

(* C1: with models of distinct names, every substantive call a model       *)
(* operation issues finds, as the library's current model, the model the   *)
(* operation was made on.                                                  *)
C1_CurrentIsOperand ==
    [][(DistinctNames /\ op'.name \in ModelOpNames) =>
           \A i \in DOMAIN log' : IsSubstantive(log'[i]) => log'[i].cur = op'.h.id]_vars

C1_Witness ==
    /\ op.name = "add_line"
    /\ Cardinality(handles) = 2
    /\ DistinctNames
    /\ log[1].cur # op.h.id
    /\ log[Len(log)].fn = "add_line"
    /\ log[Len(log)].st = 0

C3_MeshAfterSelectAndSync ==
    op.name = "generate_mesh" =>
        /\ \A i \in DOMAIN log :
               IsMeshGenerate(log[i]) =>
                   /\ i = Len(log)
                   /\ log[i].arg = op.ins
                   /\ \E j \in 1..(i - 1), k \in 1..(i - 1) :
                          /\ j < k
                          /\ IsSelect(log[j]) /\ log[j].st = 0
                          /\ IsSynchronize(log[k]) /\ log[k].st = 0
        /\ \A i \in DOMAIN log :
               ((IsSelect(log[i]) \/ IsSynchronize(log[i])) /\ log[i].st # 0) =>
                   /\ i = Len(log)
                   /\ result.kind = "Err"
        /\ result.kind = "Ok" => IsMeshGenerate(log[Len(log)])

C3_Witness ==
    /\ op.name = "generate_mesh"
    /\ result.kind = "Ok"
    /\ IsMeshGenerate(log[Len(log)])

(* C4: whenever a model operation issues a call the library is initialized *)
(* and the context the model was made from is alive.                       *)
C4_NoCallAfterFinalize ==
    (op.name \in ModelOpNames /\ log # <<>>) =>
        /\ op.sess \in sessions
        /\ \A i \in DOMAIN log : log[i].init

(* C5: at most one context is alive. *)
C5_OneSession == Cardinality(sessions) <= 1

(* C6: letting a context go issues exactly one finalize call and reports   *)
(* no error, whatever status the call returns.                             *)
C6_DropFinalizesOnce ==
    op.name = "drop" =>
        /\ Len(log) = 1
        /\ log[1].ns = "gmsh" /\ log[1].fn = "finalize"
        /\ result = Ok(Unit)
        /\ op.sess \notin sessions

C6_Witness ==
    /\ op.name = "drop"
    /\ log[1].fn = "finalize"
    /\ log[1].st # 0
    /\ result = Ok(Unit)

(* C7: initialize() hands out a context only when the library's            *)
(* initialization returned 0 and General.Terminal was set; a status other  *)
(* than 0 gives Initialization; no context exists after any failure.       *)
C7_InitializeChecked ==
    op.name = "initialize" =>
        /\ log[1].ns = "gmsh" /\ log[1].fn = "initialize"
        /\ result.kind = "Ok" =>
               /\ log[1].st = 0
               /\ Len(log) = 2
               /\ log[2].ns = "option" /\ log[2].fn = "set_number"
               /\ log[2].arg = <<"General.Terminal", 1>>
               /\ log[2].st = 0
               /\ op.sess \in sessions
        /\ log[1].st # 0 => (result = Err("Initialization") /\ Len(log) = 1)
        /\ result.kind # "Ok" => op.sess \notin sessions

C7_Witness ==
    /\ op.name = "initialize"
    /\ result.kind = "Ok"
    /\ op.sess \in sessions
    /\ log[2].st = 0

(* C8: every tag a constructor hands out is the integer the kernel's       *)
(* constructor call returned together with status 0.                       *)
C8_TagsFromBackend ==
    (op.name \in ConstructorNames /\ result.kind = "Ok") =>
        /\ log # <<>>
        /\ log[Len(log)].ns \in {"geo", "occ"}
        /\ log[Len(log)].st = 0
        /\ log[Len(log)].ret = result.val.raw

(* y is the negation of x, both within i32 *)
IsNegationOf(x, y) == x # MinI32 /\ y # MinI32 /\ y = -x

NegatesCleanly(c) ==
    /\ result.kind = "Ok"
    /\ result.val.kind = "Curve"
    /\ IsNegationOf(c.raw, result.val.raw)
    /\ \A back \in neg(result.val) : back = Ok(c)
    /\ log = <<>>

(* C9, as stated: for every CurveTag c of the whole i32 range -(-c) = c,   *)
(* the raw value of -c is the negation of the raw value of c, and no       *)
(* library call is made.                                                   *)
C9_NegEverywhere == op.name = "neg" => NegatesCleanly(op.ins[1])

(* C9, amended: the same for every CurveTag whose raw value is not         *)
(* i32::MIN.                                                               *)
C9_NegInRange ==
    (op.name = "neg" /\ op.ins[1].raw # MinI32) => NegatesCleanly(op.ins[1])

C9_Witness ==
    /\ op.name = "neg"
    /\ op.ins[1] = CurveTag(MaxI32)
    /\ result = Ok(CurveTag(MinI32 + 1))

(* C10: curve_or_surface_op takes every CurveTag and every SurfaceTag,     *)
(* classifies it to the variant of its kind with the raw value unchanged   *)
(* and issues no library call; it cannot be applied to a PointTag or a     *)
(* VolumeTag.                                                              *)
C10_CurveOrSurfaceOnly ==
    /\ op.name = "curve_or_surface_op" =>
           /\ op.ins[1].kind \in {"Curve", "Surface"}
           /\ op.entity.variant = op.ins[1].kind
           /\ op.entity.raw = op.ins[1].raw
           /\ log = <<>>
           /\ result = Ok(Unit)
    /\ Idle =>
           \A h \in handles, t \in tags :
               h.kernel = "Geo" =>
                   (ENABLED CurveOrSurfaceOp(h, t) <=> t.kind \in {"Curve", "Surface"})

C10_Witness ==
    /\ op.name = "curve_or_surface_op"
    /\ op.ins[1] = SurfaceTag(MinI32)
    /\ op.entity = [variant |-> "Surface", raw |-> MinI32]

IsKernelCall(c) == c.ns \in {"geo", "occ", "mesh"}
IsModelAdd(c) == c.ns = "model" /\ c.fn = "add"
IsModelRemove(c) == c.ns = "model" /\ c.fn = "remove"
IsOptionCall(c) == c.ns = "option"
LastCall == log[Len(log)]

(* The rows of the error table, as the specification gives them *)
ModelRow(st) ==
    CASE st = -1 -> "Initialization"
      [] st = 1 -> "ModelMutation"
      [] st = 2 -> "ModelLookup"
      [] st = 3 -> "ModelBadInput"
      [] st = 4 -> "ModelParallelMeshQuery"
      [] OTHER -> "UnknownError"

TopLevelRow(st) ==
    CASE st = -1 -> "Initialization"
      [] st = 1 -> "Execution"
      [] OTHER -> "UnknownError"

OptionRow(st) ==
    CASE st = -1 -> "Initialization"
      [] st = 1 -> "UnknownOption"
      [] OTHER -> "UnknownError"

(* C11: whatever status a kernel or mesh call of a model operation         *)
(* returns, the operation returns the value on 0 and otherwise the error   *)
(* kind of the model row: -1 Initialization, 1 ModelMutation, 2            *)
(* ModelLookup, 3 ModelBadInput, 4 ModelParallelMeshQuery, any other       *)
(* UnknownError.                                                           *)
C11_ModelStatusTable ==
    (op.name \in ModelOpNames /\ log # <<>> /\ IsKernelCall(LastCall)) =>
        IF LastCall.st = 0
        THEN /\ result.kind = "Ok"
             /\ op.name \in ConstructorNames => result.val.raw = LastCall.ret
        ELSE result = Err(ModelRow(LastCall.st))

(* C12: whatever status a model add or model remove call returns, the      *)
(* operation returns success on 0 and otherwise the error kind of the      *)
(* top-level row: -1 Initialization, 1 Execution, any other UnknownError.  *)
C12_TopLevelStatusTable ==
    (op.name \in {"create", "remove"} /\ log # <<>>
         /\ (IsModelAdd(LastCall) \/ IsModelRemove(LastCall))) =>
        IF LastCall.st = 0
        THEN result.kind = "Ok"
        ELSE result = Err(TopLevelRow(LastCall.st))

OptionOpNames ==
    {"get_number_option", "set_number_option", "get_string_option", "set_string_option"}

OptionGetNames == {"get_number_option", "get_string_option"}

UnrecognizedNames == OptionNames \ (NumberOptions \cup StringOptions \cup NulStrs)

(* An accessor called with a name the library does not know *)
OnUnrecognizedName(o) == o.name \in OptionOpNames /\ o.ins[1] \in UnrecognizedNames

OptionSetNames == {"set_number_option", "set_string_option"}

(* The options once the value of o's second input is stored under its first *)
Stored(opts, o) ==
    IF o.name = "set_number_option"
    THEN [opts EXCEPT !.num[o.ins[1]] = o.ins[2]]
    ELSE [opts EXCEPT !.str[o.ins[1]] = o.ins[2]]

(* What the options hold under the name o reads *)
Held(opts, o) ==
    IF o.name = "get_number_option" THEN opts.num[o.ins[1]] ELSE opts.str[o.ins[1]]

(* C15: a set that returns Ok stores its value under its name and changes  *)
(* no other option; a get that returns Ok returns the value stored last    *)
(* under its name; and nothing else -- a model operation, a get, a set     *)
(* that failed -- changes any stored value.  So a value set is the value   *)
(* read back, whatever model operations and sets of other names come in    *)
(* between.                                                                *)
C15_OptionRoundTrip ==
    [][/\ (op'.name \in OptionSetNames /\ result'.kind = "Ok") =>
              backend'.opts = Stored(backend.opts, op')
       /\ (op'.name \in OptionGetNames /\ result'.kind = "Ok") =>
              result'.val.raw = Held(backend.opts, op')
       /\ ~(op'.name \in OptionSetNames /\ result'.kind = "Ok") =>
              backend'.opts = backend.opts]_vars

(* The string set is read back, a model made and a number set meanwhile *)
C15_Witness ==
    /\ op.name = "get_string_option"
    /\ op.ins = <<"Solver.Name0">>
    /\ result = Ok(String("TEST_NAME_1"))
    /\ backend.opts.num["General.Axes"] = 5
    /\ backend.models # {}

(* The error kinds a model add may end in *)
CreateErrors == {"Initialization", "Execution", "UnknownError"}

(* C19, as stated: a create that fails returns Initialization or Execution *)
C19_CreateFailsTwoWays ==
    (op.name = "create" /\ result.kind = "Err") =>
        result.err \in {"Initialization", "Execution"}

(* C19, amended: create issues one model add with the handle's name.  On   *)
(* status 0 it returns the handle, which carries that name, and the new    *)
(* model is the library's current model; on any other status no handle is  *)
(* returned and the error is Initialization for -1, Execution for 1 and    *)
(* Execution or UnknownError for the rest.  A name with a NUL inside is    *)
(* refused with CInterface and no call is made.                            *)
C19_Create ==
    op.name = "create" =>
        IF op.h.name \in NulStrs
        THEN result = Err("CInterface") /\ log = <<>> /\ op.h \notin handles
        ELSE /\ Len(log) = 1
             /\ IsModelAdd(log[1])
             /\ log[1].arg = <<op.h.name>>
             /\ IF log[1].st = 0
                THEN /\ result = Ok([kind |-> "Model", raw |-> op.h.id])
                     /\ op.h \in handles
                     /\ [id |-> op.h.id, name |-> op.h.name] \in backend.models
                     /\ backend.cur = op.h.id
                ELSE /\ result.kind = "Err"
                     /\ result.err \in CreateErrors
                     /\ log[1].st = -1 => result.err = "Initialization"
                     /\ log[1].st = 1 => result.err = "Execution"
                     /\ op.h \notin handles

(* A second model made while the first is there: it becomes the current one *)
C19_Witness ==
    /\ op.name = "create"
    /\ result.kind = "Ok"
    /\ Cardinality(backend.models) = 2
    /\ backend.cur = op.h.id

AddPointNames == {"add_point", "add_point_with_lc"}

(* C16: the first point added to each model bears the same tag as the      *)
(* first point added to every other model, whatever the models' kernels    *)
(* and names and however creations and additions interleave.               *)
C16_FirstPointsEqual ==
    \A h1, h2 \in handles :
        (numbers.first[h1.id] # 0 /\ numbers.first[h2.id] # 0) =>
            PointTag(numbers.first[h1.id]) = PointTag(numbers.first[h2.id])

(* C17: the tag a successful add_point (or add_point_with_lc) on a model   *)
(* returns is the tag of no point that was added through that model and    *)
(* not removed since.                                                      *)
C17_FreshPointTag ==
    [][(op'.name \in AddPointNames /\ result'.kind = "Ok") =>
          result'.val.raw \notin numbers.live[op'.h.id]]_vars

(* C20: remove_point(p) selects its model and hands the kernel p's raw     *)
(* value alone, not recursively; when it returns Ok the point p of the     *)
(* selected model is gone and no other; the tags the client holds are      *)
(* what they were.  remove_point and add_line look at no tag they are      *)
(* given: once the selection succeeded the raw values are handed to the    *)
(* kernel, whether the points exist or not.                                *)
C20_RemovePointFrame ==
    [][(op'.name \in {"remove_point", "add_line"}) =>
          /\ tags' = tags
          /\ log' # <<>>
          /\ IsSelect(log'[1])
          /\ log'[1].arg = <<op'.h.name>>
          /\ IF log'[1].st # 0
             THEN Len(log') = 1 /\ numbers' = numbers
             ELSE /\ Len(log') = 2
                  /\ IsKernelCall(log'[2])
                  /\ IF op'.name = "add_line"
                     THEN /\ log'[2].arg = <<op'.ins[1].raw, op'.ins[2].raw, -1>>
                          /\ numbers' = numbers
                     ELSE /\ log'[2].arg = <<op'.ins[1].raw, 1, 0>>
                          /\ numbers'.pts =
                                 IF result'.kind = "Ok"
                                 THEN [numbers.pts EXCEPT
                                          ![log'[2].cur] = @ \ {op'.ins[1].raw}]
                                 ELSE numbers.pts]_vars

(* The only model there is, its point 1 removed: the tag is still held and *)
(* add_line hands its raw value to the kernel.                             *)
C20_Witness ==
    /\ op.name = "add_line"
    /\ Cardinality(backend.models) = 1
    /\ op.ins[1] = PointTag(1)
    /\ op.ins[1] \in tags
    /\ 1 \notin numbers.pts[op.h.id]
    /\ Len(log) = 2
    /\ log[2].arg[1] = 1

(* C18: whatever the two threads do, every kernel call a thread issues for *)
(* its model finds that model as the library's current model.              *)
C18_SelectOperateSerialized ==
    \A t \in DOMAIN threads :
        \A i \in DOMAIN threads[t].log :
            IsSubstantive(threads[t].log[i]) => threads[t].log[i].cur = threads[t].h.id

(* An operation handed a string with a NUL inside: a model name, an option *)
(* name or the value of a string option                                    *)
GivenNul(o) ==
    \/ o.name = "create" /\ o.h.name \in NulStrs
    \/ o.name \in OptionOpNames /\ o.ins[1] \in NulStrs
    \/ o.name = "set_string_option" /\ o.ins[2] \in NulStrs

(* C21: create and the four option accessors, handed a model name, option  *)
(* name or option value with a NUL inside, return CInterface and issue no  *)
(* call of the library, whatever the library would have answered.          *)
C21_NulRefused ==
    GivenNul(op) => (result = Err("CInterface") /\ log = <<>>)

(* A value with a NUL inside for an option the library knows *)
C21_Witness ==
    /\ op.name = "set_string_option"
    /\ op.ins = <<"Solver.Name0", "TEST\\0NAME">>
    /\ result = Err("CInterface")
    /\ log = <<>>

CurAfter(lg, i, b) == IF i < Len(lg) THEN lg[i + 1].cur ELSE b.cur

IsFinalize(c) == c.ns = "gmsh" /\ c.fn = "finalize"

(* The operations said to leave the current model alone *)
NonSelectingNames == OptionOpNames \cup {"neg", "curve_or_surface_op", "drop_model"}

(* The model operations that select their model *)
SelectingNames == ModelOpNames \ {"curve_or_surface_op"}

(* Every change of the current model is the work of a call for which       *)
(* Changer holds; an operation without calls changes nothing.              *)
CurrentChangesOnlyBy(Changer(_)) ==
    /\ log' = <<>> => backend'.cur = backend.cur
    /\ log' # <<>> => log'[1].cur = backend.cur
    /\ \A i \in DOMAIN log' :
           CurAfter(log', i, backend') # log'[i].cur => Changer(log'[i])

AddPointRuns(b, h) ==
    IF h.kernel = "Geo" THEN geo_add_point(b, h) ELSE occ_add_point(b, h)

AddPointWithLcRuns(b, h, lc) ==
    IF h.kernel = "Geo" THEN geo_add_point_with_lc(b, h, lc)
    ELSE occ_add_point_with_lc(b, h, lc)

(* The course the operation just took *)
TakenRun == Run(log', backend', result')

(* C24: every course add_point takes is a course of add_point_with_lc with *)
(* mesh size 0 on the same model and every course of add_point_with_lc     *)
(* with mesh size 0 is one of add_point: the same calls with the same      *)
(* arguments, the same translation of every status.  The add_point call    *)
(* either one issues carries the mesh size (0 for add_point) and the tag   *)
(* hint -1.                                                                *)
C24_SameConstructor ==
    [][/\ op'.name = "add_point" => TakenRun \in AddPointWithLcRuns(backend, op'.h, 0)
       /\ (op'.name = "add_point_with_lc" /\ op'.ins = <<0>>) =>
              TakenRun \in AddPointRuns(backend, op'.h)
       /\ op'.name \in AddPointNames =>
              \A i \in DOMAIN log' :
                  log'[i].fn = "add_point" =>
                      log'[i].arg = <<IF op'.name = "add_point" THEN 0 ELSE op'.ins[1], -1>>]_vars

(* add_point got a point tag out of a call with mesh size 0, tag hint -1 *)
C24_Witness ==
    /\ op.name = "add_point"
    /\ result.kind = "Ok"
    /\ LastCall.fn = "add_point"
    /\ LastCall.arg = <<0, -1>>

(* The operations the built-in kernel of geo.rs and OccModel both offer *)
SharedOpNames ==
    {"create", "remove", "add_point", "add_line", "synchronize", "generate_mesh"}

(* The OccModel of the same name and instance as h *)
OccTwin(h) == [h EXCEPT !.kernel = "OccModel"]

(* The courses the OccModel implementation of operation name can take *)
OccRuns(name, b, h, ins) ==
    CASE name = "create" -> create(b, h)
      [] name = "remove" -> remove(b, h)
      [] name = "add_point" -> occ_add_point(b, h)
      [] name = "add_line" -> occ_add_line(b, h, ins[1], ins[2])
      [] name = "synchronize" -> synchronize(b, h)
      [] name = "generate_mesh" -> generate_mesh(b, h, ins[1])

(* C25: whenever a shared operation of the built-in kernel has issued its  *)
(* calls, the OccModel implementation, taken through calls of the same     *)
(* functions ending in the same status, returns a result of the same kind: *)
(* success, or the same kind of error.                                     *)
C25_KernelsAgree ==
    [][(op'.name \in SharedOpNames /\ op'.h.kernel = "Geo" /\ log' # <<>>) =>
          \A r \in OccRuns(op'.name, backend, OccTwin(op'.h), op'.ins) :
              (/\ Len(r.calls) = Len(log')
               /\ r.calls[Len(r.calls)].fn = log'[Len(log')].fn
               /\ r.calls[Len(r.calls)].st = log'[Len(log')].st) =>
                  /\ r.res.kind = result'.kind
                  /\ r.res.err = result'.err]_vars

(* C26: an operation one of whose calls returned status -1, the select and *)
(* the model remove included, returns the Initialization error.            *)
C26_MinusOneIsInitialization ==
    \A i \in DOMAIN log : log[i].st = -1 => result = Err("Initialization")

(* The operations that begin by selecting their model *)
SelectFirstNames == SelectingNames \ {"create"}

(* The select calls among the calls of the operation *)
SelectCalls == {i \in DOMAIN log : IsSelect(log[i])}

(* C27, as stated: a select is issued only when the model of the handle is *)
(* not the current one at that moment.                                     *)
C27_SelectOnlyWhenNeeded ==
    \A i \in SelectCalls : log[i].cur # op.h.id

(* C27, amended: a model operation issues its select whether or not its    *)
(* model is already current.  Its first call is the select by the handle's *)
(* name; generate_mesh, once that select succeeded, issues a second select *)
(* through its synchronize step, and no operation issues any other.        *)
C27_SelectAlways ==
    /\ SelectCalls # {} => op.name \in SelectFirstNames
    /\ op.name \in SelectFirstNames =>
           /\ log # <<>>
           /\ \A i \in SelectCalls : log[i].arg = <<op.h.name>>
           /\ SelectCalls = IF op.name = "generate_mesh" /\ log[1].st = 0
                             THEN {1, 2} ELSE {1}

(* generate_mesh on the model that was current already: two selects *)
C27_Witness ==
    /\ op.name = "generate_mesh"
    /\ op.h.kernel = "OccModel"
    /\ result.kind = "Ok"
    /\ log[1].cur = op.h.id
    /\ SelectCalls = {1, 2}

(* C28: whatever the names of the models, every substantive call a model   *)
(* operation issues finds as current model the instance the create of its  *)
(* handle registered.                                                      *)
C28_OwnInstance ==
    op.name \in ModelOpNames =>
        \A i \in DOMAIN log : IsSubstantive(log[i]) => log[i].cur = op.h.id

Initialized(lg) ==
    {i \in DOMAIN lg : lg[i].ns = "gmsh" /\ lg[i].fn = "initialize" /\ lg[i].st = 0}

Finalized(lg) == {i \in DOMAIN lg : IsFinalize(lg[i])}

(* C30: the contexts the client holds are the initialize calls of status 0 *)
(* not yet answered by a finalize.  Every operation changes the number of  *)
(* contexts held by the number of its initialize calls of status 0 less    *)
(* the number of its finalize calls; a finalize is issued only by the      *)
(* release of a context held, once, or by an initialize() after its own    *)
(* initialize call of status 0, once; an initialize call of another status *)
(* is the last call of its initialize().                                   *)
C30_Balanced ==
    [][/\ Cardinality(sessions') - Cardinality(sessions) =
              Cardinality(Initialized(log')) - Cardinality(Finalized(log'))
       /\ Cardinality(Finalized(log')) <= 1
       /\ Finalized(log') # {} => op'.name \in {"initialize", "drop"}
       /\ op'.name = "drop" =>
              /\ Cardinality(Finalized(log')) = 1
              /\ op'.sess \in sessions \ sessions'
       /\ op'.name = "initialize" =>
              /\ log'[1].fn = "initialize"
              /\ \A j \in Finalized(log') : 1 \in Initialized(log') /\ j = Len(log')
              /\ (result'.kind # "Ok" /\ 1 \in Initialized(log')) =>
                     Cardinality(Finalized(log')) = 1
              /\ 1 \notin Initialized(log') => Len(log') = 1]_vars

(* initialize() failed on General.Terminal and finalized what it had *)
(* initialized                                                       *)
C30_Witness ==
    /\ op.name = "initialize"
    /\ result.kind = "Err"
    /\ Initialized(log) = {1}
    /\ Finalized(log) = {3}

====
